---- MODULE Spec2Model ----
(***************************************************************************)
(* Model of the MQTT lifecycle supervisor of Auto_Screen_Switch            *)
(* (src/main.rs, run_mqtt_client) and of the display gate (src/screen.rs). *)
(*                                                                         *)
(* The supervisor is one task running `loop { tokio::select! { ... } }`    *)
(* over two futures: command_rx.recv() and an async block holding the      *)
(* whole connection logic.  The async block suspends only at its await     *)
(* points; `pc` is the await point it is suspended at.  When recv()        *)
(* completes first, select! drops the async block where it is suspended    *)
(* and runs the command handler; the next loop iteration starts a new      *)
(* block from the top (pc = "select").  pc = "loop" is the head of the     *)
(* inner poll loop, reached synchronously: no command is taken there.      *)
(*                                                                         *)
(* The tray loop is taken to drain the status channel between two sends of *)
(* the supervisor: a step that sends status events waits for an empty      *)
(* channel.                                                                *)
(***************************************************************************)
EXTENDS Integers, Sequences, FiniteSets, TLC

VARIABLES
    pc,                  \* await point of the async block of main.rs:365-532
    cfg,                 \* the block's local cfg of main.rs:380: "none" until
                         \* load_config returns Ok, and when the block is gone
    mqtt_running,        \* main.rs:326
    connection_state,    \* main.rs:329
    retry_count,         \* main.rs:321
    current_retry_delay, \* main.rs:325, in seconds
    connection_stats,    \* main.rs:330
    command_queue,       \* the mpsc channel behind command_rx, main.rs:592
    channel_open,        \* FALSE once command_tx has been dropped
    status_queue,        \* the std mpsc channel behind status_tx, main.rs:593
    menu,                \* enabled flags of the tray's start/stop items
    SCREEN_STATE,        \* screen.rs:16
    broadcasts           \* LPARAMs sent by SendMessageTimeoutW, screen.rs:88

vars == <<pc, cfg, mqtt_running, connection_state, retry_count,
          current_retry_delay, connection_stats, command_queue, channel_open, status_queue, menu,
          SCREEN_STATE, broadcasts>>

----------------------------------------------------------------------------
(* Program constants *)

MAX_RETRIES == 10
INITIAL_RETRY_DELAY == 1
MAX_RETRY_DELAY == 60

(* Bounds of the model *)

MaxQueue == 1        \* commands waiting in the command channel
MaxStat == 2         \* cap of total_connections and successful_connections
MaxFailed == 10      \* cap of failed_connections
MaxBroadcasts == 2   \* monitor-power broadcasts recorded

----------------------------------------------------------------------------
(* Types *)

ConnectionState == {"Disconnected", "Connecting", "Connected", "Reconnecting"}
MqttCommand == {"Start", "Stop"}
MqttStatus == {"Started", "Stopped", "Error"}
Locations == {"select", "idle", "subscribe", "loop", "poll", "backoff", "exited"}

\* the await points of the async block, where select! can drop it
AwaitPoints == {"select", "idle", "subscribe", "poll", "backoff"}

Min(a, b) == IF a <= b THEN a ELSE b

----------------------------------------------------------------------------
(* ConnectionStats, main.rs:52-107.  Instants are kept as Some/None flags,  *)
(* total_uptime as the number of connection durations added to it.          *)

ConnectionStats_new ==
    [total_connections |-> 0, successful_connections |-> 0,
     failed_connections |-> 0, last_connection_time |-> FALSE,
     last_disconnection_time |-> FALSE, total_uptime |-> 0,
     current_uptime |-> FALSE]

on_connection_start(s) ==
    [s EXCEPT !.total_connections = @ + 1,
              !.last_connection_time = TRUE,
              !.current_uptime = TRUE]

on_connection_success(s) == [s EXCEPT !.successful_connections = @ + 1]

on_connection_failure(s) == [s EXCEPT !.failed_connections = @ + 1]

on_disconnection(s) ==
    IF s.current_uptime
    THEN [s EXCEPT !.total_uptime = @ + 1,
                   !.last_disconnection_time = TRUE,
                   !.current_uptime = FALSE]
    ELSE s

----------------------------------------------------------------------------
(* screen.rs *)

\* LPARAM of the SC_MONITORPOWER broadcast, screen.rs:84
MonitorPowerParam(on) == IF on THEN -1 ELSE 2

get_display_state(state) == IF state THEN "On" ELSE "Off"

\* mutant of set_display: the broadcast is sent, the tracked state not stored
set_display_NoStore(on, log) == <<TRUE, Append(log, MonitorPowerParam(on))>>

\* set_display: the pair <<new SCREEN_STATE, new broadcasts>>
set_display(on, log) == <<on, Append(log, MonitorPowerParam(on))>>

\* mutant of set_display_smart: the state check is skipped
set_display_smart_Always(target_state, state, log) ==
    LET r == set_display(target_state, log)
    IN  <<TRUE, r[1], r[2]>>

\* set_display_smart: <<returned bool, new SCREEN_STATE, new broadcasts>>
set_display_smart(target_state, state, log) ==
    LET current_state == get_display_state(state)
        target_screen_state == IF target_state THEN "On" ELSE "Off"
    IN  IF current_state = "On" /\ target_screen_state = "On"
        THEN <<FALSE, state, log>>
        ELSE IF current_state = "Off" /\ target_screen_state = "Off"
        THEN <<FALSE, state, log>>
        ELSE LET r == set_display(target_state, log)
             IN  <<TRUE, r[1], r[2]>>

----------------------------------------------------------------------------
(* Inbound payloads, as token sequences, and serde_json::from_slice into    *)
(* MqttMessage { action: String, params: Option<Value> }, main.rs:36-39,438 *)

JsonAction(a) == <<"{", "\"action\"", ":", a, "}">>
JsonActionParams(a, src) ==
    <<"{", "\"action\"", ":", a, ",", "\"params\"", ":",
      "{", "\"source\"", ":", src, "}", "}">>

Payloads ==
    { JsonAction("\"on\""), JsonAction("\"off\""), JsonAction("\"toggle\""),
      JsonActionParams("\"off\"", "\"ha\""),
      JsonAction("1"),
      <<"on">>, <<"off">>,
      <<"{", "\"action\"", ":", "\"on\"">> }

IsJsonString(tok) == tok \in {"\"on\"", "\"off\"", "\"toggle\"", "\"ha\""}
Unquote(tok) ==
    CASE tok = "\"on\"" -> "on"
      [] tok = "\"off\"" -> "off"
      [] tok = "\"toggle\"" -> "toggle"
      [] tok = "\"ha\"" -> "ha"
      [] OTHER -> ""

\* mutant of from_slice: raw on and off are accepted as a legacy form
from_slice_Legacy(p) ==
    LET head_ok == /\ Len(p) >= 5
                   /\ p[1] = "{" /\ p[2] = "\"action\"" /\ p[3] = ":"
                   /\ IsJsonString(p[4])
        short == head_ok /\ Len(p) = 5 /\ p[5] = "}"
    IN  IF short THEN [ok |-> TRUE, action |-> Unquote(p[4]), source |-> "unknown"]
        ELSE IF p \in {<<"on">>, <<"off">>}
        THEN [ok |-> TRUE, action |-> p[1], source |-> "unknown"]
        ELSE [ok |-> FALSE, action |-> "", source |-> ""]

from_slice(p) ==
    LET head_ok == /\ Len(p) >= 5
                   /\ p[1] = "{" /\ p[2] = "\"action\"" /\ p[3] = ":"
                   /\ IsJsonString(p[4])
        short == head_ok /\ Len(p) = 5 /\ p[5] = "}"
        long  == /\ head_ok /\ Len(p) = 13
                 /\ p[5] = "," /\ p[6] = "\"params\"" /\ p[7] = ":"
                 /\ p[8] = "{" /\ p[9] = "\"source\"" /\ p[10] = ":"
                 /\ IsJsonString(p[11]) /\ p[12] = "}" /\ p[13] = "}"
    IN  IF short THEN [ok |-> TRUE, action |-> Unquote(p[4]), source |-> "unknown"]
        ELSE IF long THEN [ok |-> TRUE, action |-> Unquote(p[4]), source |-> Unquote(p[11])]
        ELSE [ok |-> FALSE, action |-> "", source |-> ""]

----------------------------------------------------------------------------
\* mutant of Init: the display is taken to be off at process start
Init_ScreenOff ==
    /\ pc = "select"
    /\ mqtt_running = FALSE
    /\ connection_state = "Disconnected"
    /\ retry_count = 0
    /\ current_retry_delay = INITIAL_RETRY_DELAY
    /\ connection_stats = ConnectionStats_new
    /\ command_queue = <<>>
    /\ channel_open = TRUE
    /\ status_queue = <<>>
    /\ menu = [start_enabled |-> TRUE, stop_enabled |-> FALSE]
    /\ SCREEN_STATE = FALSE
    /\ broadcasts = <<>>
    /\ cfg = "none"

\* the state when run_mqtt_client enters its loop, main.rs:320-332,
\* main.rs:562-563,592-593 and screen.rs:16
Init ==
    /\ pc = "select"
    /\ mqtt_running = FALSE
    /\ connection_state = "Disconnected"
    /\ retry_count = 0
    /\ current_retry_delay = INITIAL_RETRY_DELAY
    /\ connection_stats = ConnectionStats_new
    /\ command_queue = <<>>
    /\ channel_open = TRUE
    /\ status_queue = <<>>
    /\ menu = [start_enabled |-> TRUE, stop_enabled |-> FALSE]
    /\ SCREEN_STATE = TRUE
    /\ broadcasts = <<>>
    /\ cfg = "none"

----------------------------------------------------------------------------
(* The host: tray event loop of main() *)

\* command_tx.blocking_send(..), main.rs:600,612,615
SendCommand(c) ==
    /\ channel_open
    /\ Len(command_queue) < MaxQueue
    /\ command_queue' = Append(command_queue, c)
    /\ UNCHANGED <<pc, mqtt_running, connection_state, retry_count,
                   current_retry_delay, connection_stats, channel_open,
                   status_queue, menu, SCREEN_STATE, broadcasts>>
    /\ UNCHANGED cfg

\* the event loop ends and drops command_tx, main.rs:634,655
CloseChannel ==
    /\ channel_open
    /\ channel_open' = FALSE
    /\ UNCHANGED <<pc, mqtt_running, connection_state, retry_count,
                   current_retry_delay, connection_stats, command_queue,
                   status_queue, menu, SCREEN_STATE, broadcasts>>
    /\ UNCHANGED cfg

RECURSIVE ApplyStatuses(_, _)
ApplyStatuses(m, q) ==
    IF q = <<>> THEN m
    ELSE LET m1 == CASE Head(q) = "Started" ->
                          [start_enabled |-> FALSE, stop_enabled |-> TRUE]
                     [] Head(q) = "Stopped" ->
                          [start_enabled |-> TRUE, stop_enabled |-> FALSE]
                     [] OTHER -> m
         IN  ApplyStatuses(m1, Tail(q))

\* while let Ok(status) = status_rx.try_recv(), main.rs:639-654
DrainStatus ==
    /\ status_queue # <<>>
    /\ menu' = ApplyStatuses(menu, status_queue)
    /\ status_queue' = <<>>
    /\ UNCHANGED <<pc, mqtt_running, connection_state, retry_count,
                   current_retry_delay, connection_stats, command_queue,
                   channel_open, SCREEN_STATE, broadcasts>>
    /\ UNCHANGED cfg

----------------------------------------------------------------------------
(* The supervisor: run_mqtt_client *)

\* select! polls recv() while the async block is suspended at an await point
Running == pc \in AwaitPoints

\* command_rx.recv() is ready: a command is queued, or the channel is closed.
\* select! polls recv() in the pass in which the async block suspends, so the
\* task never sleeps on a timer of the block while recv() is ready.
RecvReady == command_queue # <<>> \/ ~channel_open

\* mutant of HandleStart: the retry state is not reset
HandleStart_NoReset ==
    /\ pc \in AwaitPoints
    /\ command_queue # <<>> /\ Head(command_queue) = "Start"
    /\ command_queue' = Tail(command_queue)
    /\ IF ~mqtt_running
       THEN /\ mqtt_running' = TRUE
            /\ connection_state' = "Connecting"
       ELSE UNCHANGED <<mqtt_running, connection_state>>
    /\ pc' = "select"
    /\ UNCHANGED <<retry_count, current_retry_delay, connection_stats,
                   channel_open, status_queue, menu, SCREEN_STATE, broadcasts>>
    /\ cfg' = "none"

\* mutant of HandleStart: the state is not moved to Connecting
HandleStart_NoConnecting ==
    /\ pc \in AwaitPoints
    /\ command_queue # <<>> /\ Head(command_queue) = "Start"
    /\ command_queue' = Tail(command_queue)
    /\ IF ~mqtt_running
       THEN /\ mqtt_running' = TRUE
            /\ retry_count' = 0
            /\ current_retry_delay' = INITIAL_RETRY_DELAY
            /\ UNCHANGED connection_state
       ELSE UNCHANGED <<mqtt_running, connection_state, retry_count,
                        current_retry_delay>>
    /\ pc' = "select"
    /\ UNCHANGED <<connection_stats, channel_open, status_queue, menu,
                   SCREEN_STATE, broadcasts>>
    /\ cfg' = "none"

\* Some(MqttCommand::Start), main.rs:339-347
HandleStart ==
    /\ Running
    /\ command_queue # <<>> /\ Head(command_queue) = "Start"
    /\ command_queue' = Tail(command_queue)
    /\ IF ~mqtt_running
       THEN /\ mqtt_running' = TRUE
            /\ connection_state' = "Connecting"
            /\ retry_count' = 0
            /\ current_retry_delay' = INITIAL_RETRY_DELAY
       ELSE UNCHANGED <<mqtt_running, connection_state, retry_count,
                        current_retry_delay>>
    /\ pc' = "select"
    /\ UNCHANGED <<connection_stats, channel_open, status_queue, menu,
                   SCREEN_STATE, broadcasts>>
    /\ cfg' = "none"

\* mutant of HandleStop: connection_state is left as it was
HandleStop_KeepState ==
    /\ pc \in AwaitPoints
    /\ command_queue # <<>> /\ Head(command_queue) = "Stop"
    /\ status_queue = <<>>
    /\ command_queue' = Tail(command_queue)
    /\ mqtt_running' = FALSE
    /\ status_queue' = Append(status_queue, "Stopped")
    /\ pc' = "select"
    /\ UNCHANGED <<connection_state, connection_stats, retry_count,
                   current_retry_delay, channel_open, menu, SCREEN_STATE,
                   broadcasts>>
    /\ cfg' = "none"

\* mutant of HandleStop: the async block is not dropped
HandleStop_KeepSession ==
    /\ Running
    /\ command_queue # <<>> /\ Head(command_queue) = "Stop"
    /\ status_queue = <<>>
    /\ command_queue' = Tail(command_queue)
    /\ mqtt_running' = FALSE
    /\ connection_state' = "Disconnected"
    /\ connection_stats' = IF connection_state' = "Connected"
                           THEN on_disconnection(connection_stats)
                           ELSE connection_stats
    /\ status_queue' = Append(status_queue, "Stopped")
    /\ pc' = pc
    /\ UNCHANGED <<retry_count, current_retry_delay, channel_open, menu,
                   SCREEN_STATE, broadcasts>>
    /\ UNCHANGED cfg

\* Some(MqttCommand::Stop), main.rs:348-356
HandleStop ==
    /\ Running
    /\ command_queue # <<>> /\ Head(command_queue) = "Stop"
    /\ status_queue = <<>>
    /\ command_queue' = Tail(command_queue)
    /\ mqtt_running' = FALSE
    /\ connection_state' = "Disconnected"
    /\ connection_stats' = IF connection_state' = "Connected"
                           THEN on_disconnection(connection_stats)
                           ELSE connection_stats
    /\ status_queue' = Append(status_queue, "Stopped")
    /\ pc' = "select"
    /\ UNCHANGED <<retry_count, current_retry_delay, channel_open, menu,
                   SCREEN_STATE, broadcasts>>
    /\ cfg' = "none"

\* None: the channel is closed and empty, main.rs:357-361
HandleClosed ==
    /\ Running
    /\ command_queue = <<>> /\ ~channel_open
    /\ status_queue = <<>>
    /\ status_queue' = Append(status_queue, "Stopped")
    /\ pc' = "exited"
    /\ UNCHANGED <<mqtt_running, connection_state, retry_count,
                   current_retry_delay, connection_stats, command_queue,
                   channel_open, menu, SCREEN_STATE, broadcasts>>
    /\ cfg' = "none"

\* if !mqtt_running { sleep(100ms).await; return; }, main.rs:366-369
IdleSleep ==
    /\ pc = "select" /\ ~mqtt_running
    /\ pc' = "idle"
    /\ UNCHANGED <<mqtt_running, connection_state, retry_count,
                   current_retry_delay, connection_stats, command_queue,
                   channel_open, status_queue, menu, SCREEN_STATE, broadcasts>>
    /\ UNCHANGED cfg

IdleWake ==
    /\ pc = "idle"
    /\ ~RecvReady
    /\ pc' = "select"
    /\ UNCHANGED <<mqtt_running, connection_state, retry_count,
                   current_retry_delay, connection_stats, command_queue,
                   channel_open, status_queue, menu, SCREEN_STATE, broadcasts>>
    /\ UNCHANGED cfg

\* mutant of ConfigError: Stopped is not sent after Error
ConfigError_NoStopped ==
    /\ pc = "select" /\ mqtt_running
    /\ status_queue = <<>>
    /\ connection_state' = "Disconnected"
    /\ mqtt_running' = FALSE
    /\ status_queue' = status_queue \o <<"Error">>
    /\ pc' = "select"
    /\ UNCHANGED <<retry_count, current_retry_delay, connection_stats,
                   command_queue, channel_open, menu, SCREEN_STATE, broadcasts>>
    /\ cfg' = "none"

\* mutant of ConfigError: the failed load ends the supervisor loop
ConfigError_Fatal ==
    /\ pc = "select" /\ mqtt_running
    /\ status_queue = <<>>
    /\ connection_state' = "Disconnected"
    /\ mqtt_running' = FALSE
    /\ status_queue' = status_queue \o <<"Error", "Stopped">>
    /\ pc' = "exited"
    /\ UNCHANGED <<retry_count, current_retry_delay, connection_stats,
                   command_queue, channel_open, menu, SCREEN_STATE, broadcasts>>
    /\ cfg' = "none"

\* mutant of ConfigError: connection_state is left as it was
ConfigError_KeepState ==
    /\ pc = "select" /\ mqtt_running
    /\ status_queue = <<>>
    /\ UNCHANGED connection_state
    /\ mqtt_running' = FALSE
    /\ status_queue' = status_queue \o <<"Error", "Stopped">>
    /\ pc' = "select"
    /\ UNCHANGED <<retry_count, current_retry_delay, connection_stats,
                   command_queue, channel_open, menu, SCREEN_STATE, broadcasts>>
    /\ cfg' = "none"

\* load_config() fails, main.rs:380-391
ConfigError ==
    /\ pc = "select" /\ mqtt_running
    /\ status_queue = <<>>
    /\ connection_state' = "Disconnected"
    /\ mqtt_running' = FALSE
    /\ status_queue' = status_queue \o <<"Error", "Stopped">>
    /\ pc' = "select"
    /\ UNCHANGED <<retry_count, current_retry_delay, connection_stats,
                   command_queue, channel_open, menu, SCREEN_STATE, broadcasts>>
    /\ cfg' = "none"

\* mutant of BeginAttempt: Started is sent whatever the connection state
BeginAttempt_AnyState ==
    /\ pc = "select" /\ mqtt_running
    /\ connection_stats.total_connections < MaxStat
    /\ status_queue = <<>>
    /\ connection_stats' = on_connection_start(connection_stats)
    /\ status_queue' = Append(status_queue, "Started")
    /\ pc' = "subscribe"
    /\ UNCHANGED <<mqtt_running, connection_state, retry_count,
                   current_retry_delay, command_queue, channel_open, menu,
                   SCREEN_STATE, broadcasts>>
    /\ cfg' = "loaded"

\* load_config() succeeds; up to client.subscribe(..).await, main.rs:380-414
BeginAttempt ==
    /\ pc = "select" /\ mqtt_running
    /\ IF connection_state = "Connecting"
       THEN /\ connection_stats.total_connections < MaxStat
            /\ status_queue = <<>>
            /\ connection_stats' = on_connection_start(connection_stats)
            /\ status_queue' = Append(status_queue, "Started")
       ELSE UNCHANGED <<connection_stats, status_queue>>
    /\ pc' = "subscribe"
    /\ UNCHANGED <<mqtt_running, connection_state, retry_count,
                   current_retry_delay, command_queue, channel_open, menu,
                   SCREEN_STATE, broadcasts>>
    /\ cfg' = "loaded"

\* mutant of SubscribeOk: the backoff delay is not reset
SubscribeOk_KeepDelay ==
    /\ pc = "subscribe"
    /\ connection_stats.successful_connections < MaxStat
    /\ connection_state' = "Connected"
    /\ connection_stats' = on_connection_success(connection_stats)
    /\ retry_count' = 0
    /\ pc' = "loop"
    /\ UNCHANGED <<current_retry_delay, mqtt_running, command_queue,
                   channel_open, status_queue, menu, SCREEN_STATE, broadcasts>>
    /\ UNCHANGED cfg

\* subscribe returns Ok, main.rs:415-421
SubscribeOk ==
    /\ pc = "subscribe"
    /\ connection_stats.successful_connections < MaxStat
    /\ connection_state' = "Connected"
    /\ connection_stats' = on_connection_success(connection_stats)
    /\ retry_count' = 0
    /\ current_retry_delay' = INITIAL_RETRY_DELAY
    /\ pc' = "loop"
    /\ UNCHANGED <<mqtt_running, command_queue, channel_open, status_queue,
                   menu, SCREEN_STATE, broadcasts>>
    /\ UNCHANGED cfg

\* head of the inner loop, up to timeout(.., eventloop.poll()).await,
\* main.rs:423-431
LoopHead ==
    /\ pc = "loop"
    /\ IF ~mqtt_running
       THEN /\ connection_state' = "Disconnected"
            /\ connection_stats' = on_disconnection(connection_stats)
            /\ pc' = "select"
       ELSE /\ pc' = "poll"
            /\ UNCHANGED <<connection_state, connection_stats>>
    /\ UNCHANGED <<mqtt_running, retry_count, current_retry_delay,
                   command_queue, channel_open, status_queue, menu,
                   SCREEN_STATE, broadcasts>>
    /\ cfg' = IF pc' = "select" THEN "none" ELSE cfg

\* mutant of NextRetryDelay: the ceiling is not applied
NextRetryDelay_Uncapped(d) == d * 2

\* min(current_retry_delay * 2, MAX_RETRY_DELAY), main.rs:516-519
NextRetryDelay(d) == Min(d * 2, MAX_RETRY_DELAY)

\* mutant of SubscribeErr: gives up one failure late (> for >=)
SubscribeErr_OffByOne ==
    /\ pc = "subscribe"
    /\ connection_stats.failed_connections < MaxFailed
    /\ connection_stats' = on_connection_failure(connection_stats)
    /\ retry_count' = retry_count + 1
    /\ IF retry_count' > MAX_RETRIES
       THEN /\ status_queue = <<>>
            /\ connection_state' = "Disconnected"
            /\ mqtt_running' = FALSE
            /\ status_queue' = status_queue \o <<"Error", "Stopped">>
            /\ pc' = "select"
            /\ UNCHANGED current_retry_delay
       ELSE /\ current_retry_delay' = Min(current_retry_delay * 2, MAX_RETRY_DELAY)
            /\ connection_state' = "Reconnecting"
            /\ pc' = "backoff"
            /\ UNCHANGED <<mqtt_running, status_queue>>
    /\ UNCHANGED <<command_queue, channel_open, menu, SCREEN_STATE, broadcasts>>
    /\ cfg' = IF pc' = "select" THEN "none" ELSE cfg

\* mutant of SubscribeErr: the exhaustion reports Error without Stopped
SubscribeErr_NoStopped ==
    /\ pc = "subscribe"
    /\ connection_stats.failed_connections < MaxFailed
    /\ connection_stats' = on_connection_failure(connection_stats)
    /\ retry_count' = retry_count + 1
    /\ IF retry_count' >= MAX_RETRIES
       THEN /\ status_queue = <<>>
            /\ connection_state' = "Disconnected"
            /\ mqtt_running' = FALSE
            /\ status_queue' = status_queue \o <<"Error">>
            /\ pc' = "select"
            /\ UNCHANGED current_retry_delay
       ELSE /\ current_retry_delay' = NextRetryDelay(current_retry_delay)
            /\ connection_state' = "Reconnecting"
            /\ pc' = "backoff"
            /\ UNCHANGED <<mqtt_running, status_queue>>
    /\ UNCHANGED <<command_queue, channel_open, menu, SCREEN_STATE, broadcasts>>
    /\ cfg' = IF pc' = "select" THEN "none" ELSE cfg

\* subscribe returns Err, main.rs:501-530
SubscribeErr ==
    /\ pc = "subscribe"
    /\ connection_stats.failed_connections < MaxFailed
    /\ connection_stats' = on_connection_failure(connection_stats)
    /\ retry_count' = retry_count + 1
    /\ IF retry_count' >= MAX_RETRIES
       THEN /\ status_queue = <<>>
            /\ connection_state' = "Disconnected"
            /\ mqtt_running' = FALSE
            /\ status_queue' = status_queue \o <<"Error", "Stopped">>
            /\ pc' = "select"
            /\ UNCHANGED current_retry_delay
       ELSE /\ current_retry_delay' = NextRetryDelay(current_retry_delay)
            /\ connection_state' = "Reconnecting"
            /\ pc' = "backoff"
            /\ UNCHANGED <<mqtt_running, status_queue>>
    /\ UNCHANGED <<command_queue, channel_open, menu, SCREEN_STATE, broadcasts>>
    /\ cfg' = IF pc' = "select" THEN "none" ELSE cfg

\* mutant of BackoffElapsed: the cfg of the failed attempt is kept for the retry
BackoffElapsed_KeepCfg ==
    /\ pc = "backoff"
    /\ ~RecvReady
    /\ pc' = "select"
    /\ UNCHANGED <<mqtt_running, connection_state, retry_count,
                   current_retry_delay, connection_stats, command_queue,
                   channel_open, status_queue, menu, SCREEN_STATE, broadcasts>>
    /\ UNCHANGED cfg

\* tokio::time::sleep(current_retry_delay) elapses, main.rs:528
BackoffElapsed ==
    /\ pc = "backoff"
    /\ ~RecvReady
    /\ pc' = "select"
    /\ UNCHANGED <<mqtt_running, connection_state, retry_count,
                   current_retry_delay, connection_stats, command_queue,
                   channel_open, status_queue, menu, SCREEN_STATE, broadcasts>>
    /\ cfg' = "none"

\* mutant of DispatchAction: an unknown action is taken for "off"
DispatchAction_DefaultOff(action, state, log) ==
    CASE action = "on"  -> LET r == set_display_smart(TRUE, state, log)
                           IN  <<r[2], r[3]>>
      [] OTHER -> LET r == set_display_smart(FALSE, state, log)
                  IN  <<r[2], r[3]>>

\* mutant of DispatchAction: the two arms are exchanged
DispatchAction_Swapped(action, state, log) ==
    CASE action = "on"  -> LET r == set_display_smart(FALSE, state, log)
                           IN  <<r[2], r[3]>>
      [] action = "off" -> LET r == set_display_smart(TRUE, state, log)
                           IN  <<r[2], r[3]>>
      [] OTHER -> <<state, log>>

\* match msg.action.as_str(), main.rs:448-475: <<SCREEN_STATE, broadcasts>>
DispatchAction(action, state, log) ==
    CASE action = "on"  -> LET r == set_display_smart(TRUE, state, log)
                           IN  <<r[2], r[3]>>
      [] action = "off" -> LET r == set_display_smart(FALSE, state, log)
                           IN  <<r[2], r[3]>>
      [] OTHER -> <<state, log>>

\* Ok(Ok(Event::Incoming(Incoming::Publish(p)))), main.rs:432-482
PollPublish(p) ==
    /\ pc = "poll"
    /\ LET m == from_slice(p)
           r == IF m.ok THEN DispatchAction(m.action, SCREEN_STATE, broadcasts)
                        ELSE <<SCREEN_STATE, broadcasts>>
       IN  /\ Len(r[2]) <= MaxBroadcasts
           /\ SCREEN_STATE' = r[1]
           /\ broadcasts' = r[2]
    /\ pc' = "loop"
    /\ UNCHANGED <<mqtt_running, connection_state, retry_count,
                   current_retry_delay, connection_stats, command_queue,
                   channel_open, status_queue, menu>>
    /\ UNCHANGED cfg

\* Ok(Ok(Event::Incoming(Incoming::Disconnect))): connection_state =
\* Disconnected; on_disconnection(); break, main.rs:483-488
PollDisconnect ==
    /\ pc = "poll"
    /\ connection_state' = "Disconnected"
    /\ connection_stats' = on_disconnection(connection_stats)
    /\ pc' = "select"
    /\ UNCHANGED <<mqtt_running, retry_count, current_retry_delay,
                   command_queue, channel_open, status_queue, menu,
                   SCREEN_STATE, broadcasts>>
    /\ cfg' = "none"

\* mutant of PollError: the transport error is counted as a failed connection
PollError_CountsFailure ==
    /\ pc = "poll"
    /\ connection_state' = "Disconnected"
    /\ connection_stats' =
          on_connection_failure(on_disconnection(connection_stats))
    /\ pc' = "select"
    /\ UNCHANGED <<mqtt_running, retry_count, current_retry_delay,
                   command_queue, channel_open, status_queue, menu,
                   SCREEN_STATE, broadcasts>>
    /\ cfg' = "none"

\* Ok(Err(e)): the error is logged; connection_state = Disconnected;
\* on_disconnection(); break, main.rs:490-496
PollError ==
    /\ pc = "poll"
    /\ connection_state' = "Disconnected"
    /\ connection_stats' = on_disconnection(connection_stats)
    /\ pc' = "select"
    /\ UNCHANGED <<mqtt_running, retry_count, current_retry_delay,
                   command_queue, channel_open, status_queue, menu,
                   SCREEN_STATE, broadcasts>>
    /\ cfg' = "none"

\* Ok(Ok(_)): any other event of the MQTT event loop, main.rs:489
PollOther ==
    /\ pc = "poll"
    /\ pc' = "loop"
    /\ UNCHANGED <<mqtt_running, connection_state, retry_count,
                   current_retry_delay, connection_stats, command_queue,
                   channel_open, status_queue, menu, SCREEN_STATE, broadcasts>>
    /\ UNCHANGED cfg

\* mutant of PollTimeout: the timeout elapses although a command is ready
PollTimeout_Late ==
    /\ pc = "poll"
    /\ pc' = "loop"
    /\ UNCHANGED <<mqtt_running, connection_state, retry_count,
                   current_retry_delay, connection_stats, command_queue,
                   channel_open, status_queue, menu, SCREEN_STATE, broadcasts>>
    /\ UNCHANGED cfg

\* Err(_): the 500 ms timeout of the poll elapses, main.rs:431,497
PollTimeout ==
    /\ pc = "poll"
    /\ ~RecvReady
    /\ pc' = "loop"
    /\ UNCHANGED <<mqtt_running, connection_state, retry_count,
                   current_retry_delay, connection_stats, command_queue,
                   channel_open, status_queue, menu, SCREEN_STATE, broadcasts>>
    /\ UNCHANGED cfg

----------------------------------------------------------------------------
Next ==
    \/ \E c \in MqttCommand : SendCommand(c)
    \/ CloseChannel
    \/ DrainStatus
    \/ HandleStart
    \/ HandleStop
    \/ HandleClosed
    \/ IdleSleep
    \/ IdleWake
    \/ ConfigError
    \/ BeginAttempt
    \/ SubscribeOk
    \/ LoopHead
    \/ SubscribeErr
    \/ BackoffElapsed
    \/ \E p \in Payloads : PollPublish(p)
    \/ PollDisconnect
    \/ PollError
    \/ PollOther
    \/ PollTimeout

Spec == Init /\ [][Next]_vars

----------------------------------------------------------------------------
TypeOK ==
    /\ pc \in Locations
    /\ cfg \in {"none", "loaded"}
    /\ mqtt_running \in BOOLEAN
    /\ connection_state \in ConnectionState
    /\ retry_count \in 0..MAX_RETRIES
    /\ current_retry_delay \in INITIAL_RETRY_DELAY..MAX_RETRY_DELAY
    /\ command_queue \in Seq(MqttCommand)
    /\ status_queue \in Seq(MqttStatus)
    /\ SCREEN_STATE \in BOOLEAN
    /\ channel_open \in BOOLEAN

----------------------------------------------------------------------------
(* Vocabulary of the properties *)

\* the status events sent by a step (a drain by the tray loop sends none)
Emitted ==
    IF /\ Len(status_queue') >= Len(status_queue)
       /\ SubSeq(status_queue', 1, Len(status_queue)) = status_queue
    THEN SubSeq(status_queue', Len(status_queue) + 1, Len(status_queue'))
    ELSE <<>>

\* a step of the supervisor that takes a command c off the command channel
Handled(c) ==
    /\ command_queue # <<>>
    /\ Head(command_queue) = c
    /\ command_queue' = Tail(command_queue)

\* a step in which the pending subscribe returns an error
OpenFailed == pc = "subscribe" /\ retry_count' = retry_count + 1

\* a step in which the pending subscribe returns Ok
OpenSucceeded == pc = "subscribe" /\ connection_state' = "Connected"

\* the async block is inside a connection attempt or a session
Attempting == pc \in {"subscribe", "loop", "poll", "backoff"}

\* target of a decoded power request, for payloads that carry one
IsPowerRequest(p) == from_slice(p).ok /\ from_slice(p).action \in {"on", "off"}
Target(p) == from_slice(p).action = "on"

----------------------------------------------------------------------------
\* C1: a power request handled through set_display_smart invokes set_display
\* (one more broadcast, carrying the request's target) if and only if its
\* target differs from SCREEN_STATE at that moment; so the recorded actuator
\* calls alternate between on and off: a run of same-target requests calls the
\* actuator at most once.
C1_GateDedup ==
    [][ /\ \A p \in Payloads :
              (PollPublish(p) /\ IsPowerRequest(p)) =>
                  /\ (broadcasts' # broadcasts) <=> (Target(p) # SCREEN_STATE)
                  /\ (Target(p) # SCREEN_STATE) =>
                        broadcasts' = Append(broadcasts,
                                             MonitorPowerParam(Target(p)))
                  /\ SCREEN_STATE' = Target(p)
        /\ \A i \in 1..(Len(broadcasts') - 1) :
              broadcasts'[i] # broadcasts'[i + 1]
      ]_vars

\* the actuator has been called for off and then for on, and the session polls
C1_Witness ==
    /\ pc = "poll"
    /\ broadcasts = <<MonitorPowerParam(FALSE), MonitorPowerParam(TRUE)>>
    /\ SCREEN_STATE = TRUE

----------------------------------------------------------------------------
\* C2: a Stop taken off the command channel, in whatever state and at whatever
\* await point (pending subscribe, pending poll, backoff sleep), drops the
\* async block, sets connection_state to Disconnected and mqtt_running to
\* false and sends exactly one Stopped; a queued Stop can be handled at every
\* await point, without the sleep or the poll completing first.
C2_StopStep ==
    Handled("Stop") =>
        /\ mqtt_running' = FALSE
        /\ connection_state' = "Disconnected"
        /\ pc' = "select"
        /\ status_queue' = Append(status_queue, "Stopped")

C2_StopPrompt ==
    (/\ pc \in {"subscribe", "poll", "backoff"}
     /\ command_queue # <<>> /\ Head(command_queue) = "Stop"
     /\ status_queue = <<>>) => ENABLED HandleStop

C2_Stop == [][C2_StopStep]_vars /\ []C2_StopPrompt

\* stopped in the middle of a retry run: Stopped was sent last, the agent is
\* idle and the retry counter still holds the failures counted so far
C2_Witness ==
    /\ ~mqtt_running
    /\ connection_state = "Disconnected"
    /\ pc = "select"
    /\ retry_count \in 1..(MAX_RETRIES - 1)
    /\ status_queue # <<>>
    /\ status_queue[Len(status_queue)] = "Stopped"

----------------------------------------------------------------------------
\* C3: the open failure that brings retry_count to MAX_RETRIES sends Error and
\* then Stopped and clears mqtt_running without leaving the loop; while
\* mqtt_running is false no attempt is in progress, and only a handled Start
\* sets it again, which resets retry_count and current_retry_delay and puts the
\* supervisor in Connecting.
C3_Exhausted ==
    (OpenFailed /\ retry_count' = MAX_RETRIES) =>
        /\ Emitted = <<"Error", "Stopped">>
        /\ mqtt_running' = FALSE
        /\ pc' = "select"

C3_IdleUntilStart ==
    /\ ~mqtt_running' => ~Attempting'
    /\ (~mqtt_running /\ mqtt_running') =>
          /\ Handled("Start")
          /\ retry_count' = 0
          /\ current_retry_delay' = INITIAL_RETRY_DELAY
          /\ connection_state' = "Connecting"
          /\ pc' = "select"

C3_RetryExhaustion == [][C3_Exhausted /\ C3_IdleUntilStart]_vars

\* restarted after exhaustion: the only counted attempt saw all MAX_RETRIES
\* failures, and a Start has put the supervisor back in Connecting
C3_Witness ==
    /\ mqtt_running
    /\ connection_state = "Connecting"
    /\ retry_count = 0
    /\ current_retry_delay = INITIAL_RETRY_DELAY
    /\ connection_stats.total_connections = 1
    /\ connection_stats.successful_connections = 0
    /\ connection_stats.failed_connections = MAX_RETRIES

----------------------------------------------------------------------------
\* C4 as stated: the sleep after the n-th consecutive failure, n = 1..10, lasts
\* 1,2,4,8,16,32,60,60,60,60 seconds.
ClaimedDelays == <<1, 2, 4, 8, 16, 32, 60, 60, 60, 60>>

C4_Original ==
    pc = "backoff" =>
        /\ retry_count \in 1..Len(ClaimedDelays)
        /\ current_retry_delay = ClaimedDelays[retry_count]

\* C4 as amended: the n-th consecutive failure, n = 1..9, is followed by a sleep
\* of 2,4,8,16,32,60,60,60,60 seconds (the initial 1s is doubled before the
\* first sleep); the tenth failure is followed by no sleep: it sends Error and
\* then Stopped and clears mqtt_running, and nothing is attempted after it.
SleptDelays == <<2, 4, 8, 16, 32, 60, 60, 60, 60>>

C4_Step ==
    /\ OpenFailed =>
          IF retry_count' < MAX_RETRIES
          THEN /\ pc' = "backoff"
               /\ Emitted = <<>>
          ELSE /\ retry_count' = MAX_RETRIES
               /\ pc' = "select"
               /\ Emitted = <<"Error", "Stopped">>
               /\ mqtt_running' = FALSE
    /\ pc' = "backoff" =>
          /\ retry_count' \in 1..Len(SleptDelays)
          /\ current_retry_delay' = SleptDelays[retry_count']
    /\ (~mqtt_running /\ ~Handled("Start")) => ~Attempting'

C4_Amended == [][C4_Step]_vars

\* ten failures in the only counted attempt: given up, Error then Stopped sent
C4_Witness ==
    /\ ~mqtt_running
    /\ retry_count = MAX_RETRIES
    /\ current_retry_delay = MAX_RETRY_DELAY
    /\ connection_stats.total_connections = 1
    /\ connection_stats.failed_connections = MAX_RETRIES
    /\ status_queue = <<"Error", "Stopped">>

----------------------------------------------------------------------------
\* C5: retry_count counts the open failures since the last successful subscribe
\* or effective Start; at each such failure the delay does not decrease and
\* stays within MAX_RETRY_DELAY, and the supervisor gives up at that failure
\* exactly when the count becomes MAX_RETRIES: never with a smaller count, and
\* no attempt is ever pending with the count already at MAX_RETRIES.
C5_Step ==
    /\ OpenFailed =>
          /\ current_retry_delay' >= current_retry_delay
          /\ current_retry_delay' <= MAX_RETRY_DELAY
          /\ (mqtt_running' = FALSE) <=> (retry_count' = MAX_RETRIES)
          /\ mqtt_running' => pc' = "backoff"
    /\ retry_count' # retry_count =>
          \/ OpenFailed
          \/ retry_count' = 0 /\ (OpenSucceeded \/ Handled("Start"))
    /\ pc' = "subscribe" => retry_count' < MAX_RETRIES

C5_BackoffMonotone == [][C5_Step]_vars

\* asleep after the ninth consecutive failure, one failure short of giving up
C5_Witness ==
    /\ pc = "backoff"
    /\ mqtt_running
    /\ retry_count = MAX_RETRIES - 1
    /\ current_retry_delay = MAX_RETRY_DELAY

----------------------------------------------------------------------------
\* C6: a transport error or a broker disconnect during a session moves the
\* supervisor to Reconnecting, increments retry_count and starts a backoff
\* sleep before the next attempt.
C6_TransportErrorBacksOff ==
    [][ (PollError \/ PollDisconnect) =>
            /\ connection_state' = "Reconnecting"
            /\ retry_count' = retry_count + 1
            /\ pc' = "backoff"
      ]_vars

----------------------------------------------------------------------------
\* C7: a failed config load ends the iteration before anything is opened: it
\* sends Error and then Stopped and nothing else, leaves the statistics alone,
\* and leaves the supervisor Disconnected, not running, with no attempt pending
\* until a Start is handled.
C7_Step ==
    /\ ConfigError =>
          /\ Emitted = <<"Error", "Stopped">>
          /\ connection_state' = "Disconnected"
          /\ mqtt_running' = FALSE
          /\ ~Attempting'
          /\ connection_stats' = connection_stats
    /\ (~mqtt_running /\ Attempting') => FALSE
    /\ (~mqtt_running /\ ~Handled("Start")) => ~mqtt_running'

C7_ConfigError == [][C7_Step]_vars

\* the config load failed on the very first iteration after the first Start:
\* no attempt was ever counted and no Started was ever sent
C7_Witness ==
    /\ ~mqtt_running
    /\ connection_state = "Disconnected"
    /\ connection_stats.total_connections = 0
    /\ status_queue = <<"Error", "Stopped">>
    /\ menu.stop_enabled = FALSE

----------------------------------------------------------------------------
\* C8 as stated: Started is sent only by a step that takes connection_state
\* from Connecting to Connected.
C8_Original ==
    [][ (\E i \in 1..Len(Emitted) : Emitted[i] = "Started") =>
            (connection_state = "Connecting" /\ connection_state' = "Connected")
      ]_vars

\* C8 as amended: Started is sent only at the start of an attempt made in state
\* Connecting, once the config is loaded and before the subscribe is issued: the
\* step sends Started alone, stays in Connecting and leaves the subscribe
\* pending; the step that enters Connected sends nothing, so an attempt whose
\* open fails has had its Started sent all the same.
C8_Step ==
    /\ (\E i \in 1..Len(Emitted) : Emitted[i] = "Started") =>
          /\ Emitted = <<"Started">>
          /\ pc = "select" /\ pc' = "subscribe"
          /\ mqtt_running /\ mqtt_running'
          /\ connection_state = "Connecting"
          /\ connection_state' = "Connecting"
    /\ (pc = "select" /\ pc' = "subscribe" /\ connection_state = "Connecting")
          => Emitted = <<"Started">>
    /\ (OpenSucceeded \/ OpenFailed \/ connection_state' = "Connected")
          => ~(\E i \in 1..Len(Emitted) : Emitted[i] = "Started")

C8_Amended == [][C8_Step]_vars

\* the first open of the first counted attempt has failed, and its Started is
\* in the status channel
C8_Witness ==
    /\ pc = "backoff"
    /\ retry_count = 1
    /\ connection_stats.total_connections = 1
    /\ connection_stats.successful_connections = 0
    /\ status_queue = <<"Started">>

----------------------------------------------------------------------------
\* the first session of a process in which set_display has not been called
FirstSession ==
    /\ pc = "poll"
    /\ broadcasts = <<>>
    /\ connection_stats.total_connections = 1
    /\ connection_stats.successful_connections = 1
    /\ connection_stats.failed_connections = 0

\* the last Started/Stopped event sent, seen through the tray's stop item
LastSentIsStarted == ApplyStatuses(menu, status_queue).stop_enabled

\* C9 as stated: in the first session of a fresh process, {"action":"on"} makes
\* the gate call the actuator with true.
C9_Original ==
    [][ (FirstSession /\ PollPublish(JsonAction("\"on\""))) =>
            /\ broadcasts' = <<MonitorPowerParam(TRUE)>>
            /\ SCREEN_STATE' = TRUE
      ]_vars

\* C9 as amended: in the first session of a fresh process Started has been
\* sent; {"action":"on"} does not call the actuator, the gate being On from the
\* start, and leaves the gate On and the session polling, however often it is
\* repeated; a Stop then sends Stopped alone and drops the session.
C9_Step ==
    /\ FirstSession' => (LastSentIsStarted' /\ SCREEN_STATE' = TRUE)
    /\ (FirstSession /\ PollPublish(JsonAction("\"on\""))) =>
          /\ broadcasts' = <<>>
          /\ SCREEN_STATE' = TRUE
          /\ pc' = "loop"
    /\ (FirstSession /\ Handled("Stop")) =>
          /\ Emitted = <<"Stopped">>
          /\ pc' = "select"
          /\ mqtt_running' = FALSE
          /\ broadcasts' = <<>> /\ SCREEN_STATE' = TRUE

C9_Amended == [][C9_Step]_vars

\* the first session was stopped without the actuator ever being called
C9_Witness ==
    /\ ~mqtt_running
    /\ pc = "select"
    /\ broadcasts = <<>> /\ SCREEN_STATE = TRUE
    /\ connection_stats.total_connections = 1
    /\ connection_stats.successful_connections = 1
    /\ connection_stats.failed_connections = 0
    /\ connection_stats.current_uptime
    /\ menu.stop_enabled
    /\ status_queue = <<"Stopped">>

----------------------------------------------------------------------------
\* C10: every subscribe that returns Ok sets retry_count to 0 and
\* current_retry_delay to INITIAL_RETRY_DELAY, whatever they were.
C10_SuccessResets ==
    [][ OpenSucceeded =>
            /\ retry_count' = 0
            /\ current_retry_delay' = INITIAL_RETRY_DELAY
      ]_vars

\* in a session opened after two or more failures of the same counted attempt
C10_Witness ==
    /\ pc = "poll"
    /\ connection_state = "Connected"
    /\ retry_count = 0
    /\ current_retry_delay = INITIAL_RETRY_DELAY
    /\ connection_stats.total_connections = 1
    /\ connection_stats.successful_connections = 1
    /\ connection_stats.failed_connections >= 2

----------------------------------------------------------------------------
\* a step of the async block: it moves the block, or ends it where it began
\* (a failed config load), without taking a command or leaving the loop
BlockStep ==
    /\ command_queue' = command_queue
    /\ pc' # "exited"
    /\ (pc' # pc \/ mqtt_running' # mqtt_running)

\* Failed: the retries are exhausted and the supervisor has given up
Failed ==
    /\ connection_state = "Disconnected"
    /\ ~mqtt_running
    /\ retry_count = MAX_RETRIES

\* C11 as stated: the supervisor leaves Connecting, by a step of its own that
\* is not the handling of a Stop, only for Connected, Reconnecting or Failed.
C11_Original ==
    [][ (connection_state = "Connecting" /\ connection_state' # "Connecting"
         /\ ~Handled("Stop"))
            => (connection_state' \in {"Connected", "Reconnecting"} \/ Failed')
      ]_vars

\* C11 as amended: a Start handled in the idle Disconnected state puts the
\* supervisor in Connecting at the top of its loop; unless a command or the
\* closing of the channel is handled first, the second step of the async block
\* at the latest leaves Connecting, for Connected, Reconnecting or Failed, or,
\* when the config load fails, for Disconnected with Error and Stopped sent.
\* Such a step is always possible: the supervisor is never stuck in Connecting.
C11_Step ==
    /\ (connection_state = "Disconnected" /\ ~mqtt_running /\ Handled("Start")) =>
          (connection_state' = "Connecting" /\ pc' = "select" /\ mqtt_running')
    /\ (connection_state = "Connecting" /\ pc = "select" /\ BlockStep) =>
          \/ pc' = "subscribe" /\ connection_state' = "Connecting"
          \/ /\ connection_state' = "Disconnected" /\ ~mqtt_running'
             /\ Emitted = <<"Error", "Stopped">>
    /\ (connection_state = "Connecting" /\ pc = "subscribe" /\ BlockStep) =>
          (connection_state' \in {"Connected", "Reconnecting"} \/ Failed')

C11_Inv ==
    /\ connection_state = "Connecting" =>
          (mqtt_running /\ pc \in {"select", "subscribe", "exited"})
    /\ (connection_state = "Connecting" /\ pc = "select" /\ status_queue = <<>>)
          => ENABLED (BeginAttempt \/ ConfigError)
    /\ (/\ connection_state = "Connecting" /\ pc = "subscribe"
        /\ connection_stats.successful_connections < MaxStat)
          => ENABLED SubscribeOk
    /\ (/\ connection_state = "Connecting" /\ pc = "subscribe"
        /\ connection_stats.failed_connections < MaxFailed)
          => ENABLED SubscribeErr

C11_Amended == [][C11_Step]_vars /\ []C11_Inv

\* the first Start of the process ended in a failed config load: back in
\* Disconnected with Error and Stopped sent, never Connected nor Reconnecting
C11_Witness ==
    /\ connection_state = "Disconnected"
    /\ ~mqtt_running
    /\ retry_count = 0
    /\ connection_stats = ConnectionStats_new
    /\ status_queue = <<"Error", "Stopped">>
    /\ menu.start_enabled

----------------------------------------------------------------------------
\* Scheduling of the running program: the tray's event loop drains the status
\* channel on every pass (main.rs:639-654); select! polls its branches in
\* random order, so a command that is ready at an await point of the async
\* block again and again is taken (main.rs:335-337); the inner loop goes on
\* from its head to the next poll (main.rs:423-431).
FairSpec ==
    /\ Spec
    /\ WF_vars(DrainStatus)
    /\ SF_vars(HandleStart)
    /\ SF_vars(HandleStop)
    /\ SF_vars(HandleClosed)
    /\ WF_vars(LoopHead)

Range(q) == { q[i] : i \in DOMAIN q }

StopQueued == "Stop" \in Range(command_queue)

\* C12: under fair scheduling a Stop queued while the supervisor is Connected
\* is followed by a Stopped status event, whatever messages arrive; while the
\* Stop waits at the poll await the 500 ms timeout cannot elapse before it (the
\* Stop is taken first, as soon as the status channel has room in the model),
\* the step that handles it ends the session, and until a later Start no
\* inbound message reaches the actuator.
C12_Live ==
    (connection_state = "Connected" /\ StopQueued)
        ~> ("Stopped" \in Range(status_queue) /\ ~mqtt_running)

C12_Inv ==
    /\ (pc = "poll" /\ command_queue # <<>>) => ~ENABLED PollTimeout
    /\ (/\ pc = "poll" /\ command_queue # <<>> /\ Head(command_queue) = "Stop"
        /\ status_queue = <<>>) => ENABLED HandleStop
    /\ (connection_state = "Connected" /\ StopQueued)
          => "Stopped" \notin Range(status_queue)
    /\ pc \in {"loop", "poll"} => connection_state = "Connected"

C12_Step ==
    /\ Handled("Stop") =>
          /\ pc' = "select" /\ ~mqtt_running'
          /\ connection_state' = "Disconnected"
          /\ Emitted = <<"Stopped">>
          /\ UNCHANGED <<SCREEN_STATE, broadcasts>>
    /\ ~mqtt_running => UNCHANGED <<SCREEN_STATE, broadcasts>>

----------------------------------------------------------------------------
\* the supervisor's own variables, without its location
SupervisorData ==
    <<mqtt_running, connection_state, retry_count, current_retry_delay,
      connection_stats, SCREEN_STATE, broadcasts>>

\* C13: the supervisor loop ends if and only if the command channel is closed:
\* the step that ends it finds the channel closed and empty, emits Stopped and
\* touches nothing else, so it is no config error, open failure, transport
\* error, decode error nor retry exhaustion (those steps stay in the loop);
\* once ended it stays ended; and under fair scheduling a closed channel is
\* followed by the end of the loop.
C13_Step ==
    /\ (pc # "exited" /\ pc' = "exited") =>
          /\ ~channel_open /\ command_queue = <<>>
          /\ Emitted = <<"Stopped">>
          /\ UNCHANGED SupervisorData
    /\ ("Error" \in Range(Emitted) \/ OpenFailed
        \/ connection_state' # connection_state
        \/ (pc = "poll" /\ pc' \in {"loop", "select"}))
          => pc' # "exited"
    /\ pc = "exited" => (pc' = "exited" /\ UNCHANGED SupervisorData)

C13_Inv ==
    /\ (channel_open \/ command_queue # <<>>) => pc # "exited"
    /\ (/\ pc \in AwaitPoints /\ ~channel_open /\ command_queue = <<>>
        /\ status_queue = <<>>) => ENABLED HandleClosed

C13_ExitOnlyOnClose ==
    /\ [][C13_Step]_vars
    /\ []C13_Inv
    /\ (~channel_open ~> pc = "exited")

\* the loop has ended after ten failed opens had exhausted the retries:
\* the exhaustion left the supervisor idle in the loop, the closing ended it
C13_Witness ==
    /\ pc = "exited"
    /\ ~channel_open
    /\ retry_count = MAX_RETRIES
    /\ ~mqtt_running
    /\ "Stopped" \in Range(status_queue)

----------------------------------------------------------------------------
\* the pairs <<from, to>> of the lifecycle table (Failed shows as Disconnected)
LifecycleTable ==
    { <<"Disconnected", "Connecting">>,
      <<"Connecting", "Disconnected">>,
      <<"Connecting", "Connected">>,
      <<"Connecting", "Reconnecting">>,
      <<"Connected", "Reconnecting">>,
      <<"Connected", "Disconnected">>,
      <<"Reconnecting", "Disconnected">>,
      <<"Reconnecting", "Connecting">> }

\* C14: connection_state changes only along the lifecycle table; after a
\* backoff sleep with retries remaining the next attempt begins in Connecting,
\* and Connected is entered from Connecting only.
C14_TableTransitions ==
    [][ /\ connection_state' # connection_state =>
              <<connection_state, connection_state'>> \in LifecycleTable
        /\ (pc = "select" /\ pc' = "subscribe") =>
              connection_state' = "Connecting"
        /\ (connection_state # "Connected" /\ connection_state' = "Connected")
              => connection_state = "Connecting"
      ]_vars

----------------------------------------------------------------------------
\* C15: a broker disconnect and a transport error received while Connected
\* are handled alike: wherever one can happen so can the other, a step is the
\* one exactly when it is the other, and it leaves connection_state
\* Disconnected, the retry counter and the backoff delay as they were, the
\* stats updated by on_disconnection alone, and no status event emitted.
C15_Step ==
    /\ PollDisconnect <=> PollError
    /\ (PollDisconnect \/ PollError) =>
          /\ connection_state = "Connected"
          /\ connection_state' = "Disconnected"
          /\ retry_count' = retry_count
          /\ current_retry_delay' = current_retry_delay
          /\ connection_stats' = on_disconnection(connection_stats)
          /\ Emitted = <<>>
          /\ mqtt_running' = mqtt_running

C15_LossesAlike ==
    /\ [][C15_Step]_vars
    /\ [](ENABLED PollDisconnect <=> ENABLED PollError)

\* a session has been lost after at least one failed open: the retry counter
\* and the delay are those the failures left, the uptime clock is stopped
C15_Witness ==
    /\ connection_state = "Disconnected"
    /\ mqtt_running
    /\ pc = "select"
    /\ retry_count = 0
    /\ connection_stats.failed_connections >= 1
    /\ connection_stats.successful_connections >= 1
    /\ connection_stats.last_disconnection_time
    /\ ~connection_stats.current_uptime

----------------------------------------------------------------------------
\* the structured messages among the payloads, each with its action string
StructuredMessages ==
    { <<JsonAction("\"on\""), "on">>,
      <<JsonAction("\"off\""), "off">>,
      <<JsonActionParams("\"off\"", "\"ha\""), "off">>,
      <<JsonAction("\"toggle\""), "toggle">> }

\* what a request for power `on` does at the gate: nothing when the tracked
\* state is already the target, one actuator call with the target otherwise
GateRequest(on) ==
    /\ SCREEN_STATE' = on
    /\ broadcasts' = IF SCREEN_STATE = on
                     THEN broadcasts
                     ELSE Append(broadcasts, MonitorPowerParam(on))

\* C16: of a structured inbound message, action "on" reaches the gate as a
\* request for power on, action "off" as a request for power off, with or
\* without params; any other action string makes no gate request and no
\* actuator call.
C16_Routing ==
    [][ \A m \in StructuredMessages :
            PollPublish(m[1]) =>
                CASE m[2] = "on"  -> GateRequest(TRUE)
                  [] m[2] = "off" -> GateRequest(FALSE)
                  [] OTHER -> UNCHANGED <<SCREEN_STATE, broadcasts>>
      ]_vars

\* an "off" has just been routed to the gate and the actuator called for it
C16_Witness ==
    /\ pc = "loop"
    /\ broadcasts = <<MonitorPowerParam(FALSE)>>
    /\ SCREEN_STATE = FALSE

----------------------------------------------------------------------------
\* the raw byte sequences on and off, no JSON document
RawOn == <<"on">>
RawOff == <<"off">>

\* everything but the location of the async block
AllButPc ==
    <<cfg, mqtt_running, connection_state, retry_count, current_retry_delay,
      connection_stats, command_queue, channel_open, status_queue, menu,
      SCREEN_STATE, broadcasts>>

\* C17 as stated: the raw payload on (off) is decoded as SetPower(true)
\* (SetPower(false)) and routed to the gate.
C17_Original ==
    [][ /\ PollPublish(RawOn) => GateRequest(TRUE)
        /\ PollPublish(RawOff) => GateRequest(FALSE)
      ]_vars

\* C17 as amended: there is no legacy form; the raw payload on or off fails
\* the JSON parse, which is logged: no gate request is made, the actuator is
\* not called, nothing but the position in the inner loop changes, and the
\* session polls on.
C17_Amended ==
    [][ (PollPublish(RawOn) \/ PollPublish(RawOff)) =>
            /\ UNCHANGED AllButPc
            /\ pc' = "loop"
      ]_vars

\* a raw payload has been polled with the gate Off (a raw on would have had
\* to switch the display on) and the gate is still Off
C17_Witness ==
    /\ pc = "loop"
    /\ ~SCREEN_STATE
    /\ broadcasts = <<MonitorPowerParam(FALSE)>>
    /\ ~from_slice(RawOn).ok /\ ~from_slice(RawOff).ok
    /\ connection_state = "Connected"
    /\ command_queue = <<>>

----------------------------------------------------------------------------
\* payloads that fail to decode: a number for the action, raw bytes, a
\* document cut short; and the payload with an unknown action
Undecodable ==
    { JsonAction("1"), RawOn, RawOff, <<"{", "\"action\"", ":", "\"on\"">> }
UnknownAction == { JsonAction("\"toggle\"") }

\* C18: a payload that fails to decode, or carries an unknown action, leaves
\* connection_state, mqtt_running, the retry counter, the backoff delay, the
\* stats and the gate's tracked state as they were, emits no status event and
\* calls no actuator; the inner loop goes on to its next poll.
C18_Step ==
    /\ \A p \in Undecodable \cup UnknownAction :
          PollPublish(p) => (UNCHANGED AllButPc /\ pc' = "loop")
    /\ (pc = "loop" /\ pc' # "loop" /\ command_queue' = command_queue
        /\ channel_open' = channel_open /\ status_queue' = status_queue)
          => (pc' = "poll" /\ UNCHANGED AllButPc)

C18_Inv ==
    /\ Undecodable \cup UnknownAction \subseteq Payloads
    /\ pc = "loop" => (mqtt_running /\ ENABLED LoopHead)
    /\ pc = "poll" => \A p \in Undecodable \cup UnknownAction :
                          ENABLED PollPublish(p)

C18_DecodeErrorFrame == [][C18_Step]_vars /\ []C18_Inv

\* in the first session a payload has been polled, the actuator has not been
\* called, nothing has been emitted since Started was drained
C18_Witness ==
    /\ pc = "loop"
    /\ broadcasts = <<>> /\ SCREEN_STATE
    /\ connection_state = "Connected" /\ mqtt_running
    /\ retry_count = 0 /\ current_retry_delay = INITIAL_RETRY_DELAY
    /\ status_queue = <<>>
    /\ connection_stats.successful_connections = 1

----------------------------------------------------------------------------
\* a connection attempt: the subscribe of main.rs:414 returns
AttemptEnds == pc = "subscribe" /\ pc' \in {"loop", "backoff", "select"}
                 /\ command_queue' = command_queue /\ pc' # "exited"
                 /\ (pc' = "select" => retry_count' # retry_count)

\* C19: every connection attempt, the first or a retry, after a failed open or
\* a lost session, is made with a cfg that load_config returned in the same
\* iteration of the supervisor loop: an iteration begins with no cfg, the
\* subscribe is reached only through the load, and the cfg is gone when the
\* iteration ends or is dropped, so none outlives the attempt it was loaded for.
C19_Step ==
    /\ (pc # "subscribe" /\ pc' = "subscribe") =>
          (pc = "select" /\ cfg = "none" /\ cfg' = "loaded")
    /\ AttemptEnds => cfg = "loaded"
    /\ pc' \in {"select", "idle", "exited"} => cfg' = "none"
    /\ (pc = "subscribe" /\ pc' = "loop") => cfg' = cfg

C19_Inv ==
    /\ pc \in {"select", "idle"} => cfg = "none"
    /\ pc \in {"subscribe", "loop", "poll", "backoff"} => cfg = "loaded"

C19_FreshConfig == [][C19_Step]_vars /\ []C19_Inv

\* a retry after a lost session and a failed open: the third load of the
\* process precedes the subscribe now pending
C19_Witness ==
    /\ pc = "subscribe"
    /\ cfg = "loaded"
    /\ connection_state = "Reconnecting"
    /\ connection_stats.successful_connections >= 1
    /\ connection_stats.failed_connections >= 1
    /\ connection_stats.last_disconnection_time

----------------------------------------------------------------------------
\* the argument of the most recent call of set_display, read off its broadcast
LastCallArg == broadcasts[Len(broadcasts)] = MonitorPowerParam(TRUE)

\* C20: in every reachable state SCREEN_STATE is On (true) if set_display has
\* not been called in this process, and the argument of its most recent call
\* otherwise; it changes only in a step that calls set_display, with the new
\* value as argument, and no step outside the handling of a polled message
\* (Start, Stop, closing, opens, failures, losses, sleeps) touches it or calls
\* the actuator.
C20_Inv ==
    SCREEN_STATE = (IF broadcasts = <<>> THEN TRUE ELSE LastCallArg)

C20_Step ==
    /\ SCREEN_STATE' # SCREEN_STATE =>
          broadcasts' = Append(broadcasts, MonitorPowerParam(SCREEN_STATE'))
    /\ broadcasts' # broadcasts =>
          /\ pc = "poll" /\ pc' = "loop"
          /\ \E on \in BOOLEAN :
                /\ broadcasts' = Append(broadcasts, MonitorPowerParam(on))
                /\ SCREEN_STATE' = on
    /\ (Handled("Start") \/ Handled("Stop") \/ pc # "poll" \/ pc' # "loop")
          => UNCHANGED <<SCREEN_STATE, broadcasts>>

C20_TrackedState == []C20_Inv /\ [][C20_Step]_vars

\* the actuator was called for off, and a Stop has since dropped the session
\* and a Start begun another: the tracked state is still Off
C20_Witness ==
    /\ ~SCREEN_STATE
    /\ broadcasts = <<MonitorPowerParam(FALSE)>>
    /\ connection_state = "Connecting"
    /\ connection_stats.total_connections = 1
    /\ pc = "select"

----------------------------------------------------------------------------
\* C21: a Start handled while mqtt_running is true is a no-op: mqtt_running,
\* connection_state, the retry counter and the backoff delay keep their values,
\* no status event is emitted, and the async block stays where it was: the
\* pending subscribe, the session or the backoff sleep is not dropped.
C21_StartNoOp ==
    [][ (mqtt_running /\ Handled("Start")) =>
            /\ UNCHANGED <<mqtt_running, connection_state, retry_count,
                           current_retry_delay, connection_stats>>
            /\ Emitted = <<>>
            /\ pc' = pc
            /\ cfg' = cfg
      ]_vars

----------------------------------------------------------------------------
\* C22: while the agent is stopped (mqtt_running false: after a Stop, a failed
\* config load or the exhaustion of the retries, until the next Start is
\* handled) no session exists, no inbound message can be polled and
\* set_display is not called; mqtt_running becomes false only in a step that
\* drops or ends the async block, and true again only by a handled Start.
C22_Inv ==
    ~mqtt_running =>
        /\ pc \in {"select", "idle", "exited"}
        /\ cfg = "none"
        /\ \A p \in Payloads : ~ENABLED PollPublish(p)

C22_Step ==
    /\ ~mqtt_running => UNCHANGED <<SCREEN_STATE, broadcasts>>
    /\ (mqtt_running /\ ~mqtt_running') =>
          /\ pc' = "select"
          /\ UNCHANGED <<SCREEN_STATE, broadcasts>>
          /\ \/ Handled("Stop")
             \/ Emitted = <<"Error", "Stopped">>
    /\ (~mqtt_running /\ mqtt_running') => Handled("Start")

C22_StoppedNoActuation == []C22_Inv /\ [][C22_Step]_vars

\* stopped by a Stop after the actuator had been called twice, and idle since
C22_Witness ==
    /\ ~mqtt_running
    /\ pc = "idle"
    /\ Len(broadcasts) = 2
    /\ connection_stats.current_uptime
    /\ status_queue = <<>>
    /\ ~menu.stop_enabled

----------------------------------------------------------------------------
\* C23: whenever mqtt_running is false, the last Started/Stopped event sent
\* is Stopped, or none has been sent: once the tray has drained the channel
\* its start item is enabled and its stop item disabled. Every step that
\* turns mqtt_running false sends Stopped last, and Started is sent only by a
\* step taken with mqtt_running true that leaves it true.
C23_Inv ==
    ~mqtt_running =>
        /\ ~LastSentIsStarted
        /\ ApplyStatuses(menu, status_queue).start_enabled
        /\ status_queue = <<>> =>
              (menu.start_enabled /\ ~menu.stop_enabled)

C23_Step ==
    /\ (mqtt_running /\ ~mqtt_running') =>
          /\ Emitted # <<>>
          /\ Emitted[Len(Emitted)] = "Stopped"
    /\ "Started" \in Range(Emitted) => (mqtt_running /\ mqtt_running')

C23_IdleShowsStopped == []C23_Inv /\ [][C23_Step]_vars

\* the retries are exhausted and Error, Stopped are still in the channel: the
\* tray shows the Started it drained before, the last event sent is Stopped
C23_Witness ==
    /\ ~mqtt_running
    /\ retry_count = MAX_RETRIES
    /\ status_queue = <<"Error", "Stopped">>
    /\ menu.stop_enabled
    /\ ~LastSentIsStarted

----------------------------------------------------------------------------
\* C24: in every reachable state, at the top of the supervisor loop as at
\* every other point, mqtt_running false implies connection_state
\* Disconnected; every step that turns mqtt_running false leaves
\* connection_state Disconnected, and while it is false connection_state
\* does not move.
C24_Inv == ~mqtt_running => connection_state = "Disconnected"

C24_Step ==
    /\ (mqtt_running /\ ~mqtt_running') => connection_state' = "Disconnected"
    /\ (~mqtt_running /\ ~mqtt_running') => UNCHANGED connection_state

C24_IdleIsDisconnected == []C24_Inv /\ [][C24_Step]_vars

\* a Stop has interrupted a backoff sleep: the state was Reconnecting, the
\* retry counter and the delay are those of the failures, the agent is idle
C24_Witness ==
    /\ ~mqtt_running
    /\ pc = "select"
    /\ connection_state = "Disconnected"
    /\ retry_count = 3
    /\ current_retry_delay = 8
    /\ status_queue = <<"Stopped">>

----------------------------------------------------------------------------
\* C25: the counters of ConnectionStats stay consistent: successful_connections
\* plus failed_connections never exceeds total_connections, so the success
\* rate successful_connections / total_connections never exceeds 100%.
C25_StatsConsistent ==
    /\ connection_stats.successful_connections
         + connection_stats.failed_connections
            <= connection_stats.total_connections
    /\ connection_stats.successful_connections
            <= connection_stats.total_connections

----------------------------------------------------------------------------
\* C26: a Stop handled while connection_state is Connected records the
\* disconnection in the stats, on_disconnection clearing current_uptime and
\* adding the connection's duration to total_uptime, in the step that emits
\* Stopped.
C26_StopRecordsDisconnection ==
    [][ (connection_state = "Connected" /\ Handled("Stop")) =>
            /\ connection_stats' = on_disconnection(connection_stats)
            /\ ~connection_stats'.current_uptime
            /\ connection_stats'.last_disconnection_time
            /\ Emitted = <<"Stopped">>
      ]_vars

====
